---- MODULE Spec2Model ----
(***************************************************************************)
(* Model of PathfindingVisualizer (src/project.py): the grid, the neighbour *)
(* query, the best-first search find_path with its three strategies, and    *)
(* the event loop that drives it.                                           *)
(*                                                                          *)
(* find_path is modelled one loop iteration per step, so that its loop      *)
(* invariants and its termination can be stated.  Python's None is the      *)
(* empty tuple; a cell is the pair <<row, col>>, 0-indexed as in the code.  *)
(***************************************************************************)
EXTENDS Integers, Sequences, FiniteSets, TLC

VARIABLES
    rows, cols,        \* self.rows, self.cols
    grid,              \* self.grid[r][c] : 0 empty, 1 wall, 2 start, 3 end
    start, end,        \* self.start, self.end
    explored_nodes,    \* self.explored_nodes
    self_path,         \* self.path
    animation_step,    \* self.animation_step
    pc,                \* position of the running handler
    algorithm,         \* find_path's argument
    frontier,          \* PriorityQueue of <<priority, cell, g_cost>>, kept in pop order
    came_from,         \* dict cell -> predecessor cell or None
    cost_so_far,       \* dict cell -> g cost
    visited,           \* set of finalized cells
    explored,          \* list of cells in visitation order
    current,           \* the local `current` of find_path
    path,              \* the local `path` of find_path
    ret_path           \* the path find_path returned (None when absent)

self_vars == <<rows, cols, grid, start, end, explored_nodes, self_path, animation_step>>
vars == <<rows, cols, grid, start, end, explored_nodes, self_path, animation_step,
          pc, algorithm, frontier, came_from, cost_so_far, visited, explored,
          current, path, ret_path>>

----------------------------------------------------------------------------
(* Bounds of the grids the search is checked on. *)
MaxRows == 3
MaxCols == 5
MaxCells == 11
MaxWalls == 2

(* Program constants. *)
ROWS == 15
COLS == 20

None == <<>>
Algorithms == {"astar", "dijkstra", "greedy"}

Abs(x) == IF x < 0 THEN -x ELSE x

Cells(nr, nc) == (0..(nr - 1)) \X (0..(nc - 1))

----------------------------------------------------------------------------
(* Faults of the direction list: north mistyped as a diagonal; north missing. *)
DirectionsDiagonal == <<<<0, 1>>, <<1, 0>>, <<0, -1>>, <<-1, -1>>>>

DirectionsNoNorth == <<<<0, 1>>, <<1, 0>>, <<0, -1>>>>

(* get_neighbors: the direction list of its for loop. *)
Directions == <<<<0, 1>>, <<1, 0>>, <<0, -1>>, <<-1, 0>>>>

(* Fault: get_neighbors leaves out the wall test. *)
get_neighbors_walls_too(row, col) ==
    LET cand == [i \in 1..Len(Directions) |->
                    <<row + Directions[i][1], col + Directions[i][2]>>]
        ok(p) == /\ 0 <= p[1] /\ p[1] < rows
                 /\ 0 <= p[2] /\ p[2] < cols
    IN  SelectSeq(cand, ok)

get_neighbors(row, col) ==
    LET cand == [i \in 1..Len(Directions) |->
                    <<row + Directions[i][1], col + Directions[i][2]>>]
        ok(p) == /\ 0 <= p[1] /\ p[1] < rows
                 /\ 0 <= p[2] /\ p[2] < cols
                 /\ grid[p[1]][p[2]] # 1
    IN  SelectSeq(cand, ok)

(* Fault: the column term uses the row index a second time. *)
manhattan_distance_rows_twice(a, b) == Abs(b[1] - a[1]) + Abs(b[1] - a[1])

manhattan_distance(a, b) == Abs(b[1] - a[1]) + Abs(b[2] - a[2])

----------------------------------------------------------------------------
(* Python's order on the frontier's (priority, node, g_cost) tuples. *)
TupleLess(a, b) ==
    \/ a[1] < b[1]
    \/ /\ a[1] = b[1]
       /\ \/ a[2][1] < b[2][1]
          \/ a[2][1] = b[2][1] /\ a[2][2] < b[2][2]
          \/ a[2] = b[2] /\ a[3] < b[3]

(* frontier.put(e): the queue is kept in the order get() returns it. *)
Put(q, e) ==
    LET k == Cardinality({i \in 1..Len(q) : ~TupleLess(e, q[i])})
    IN  SubSeq(q, 1, k) \o <<e>> \o SubSeq(q, k + 1, Len(q))

(* Fault: get() reads the entry and leaves it in the queue. *)
RemoveNothing(q, i) == q

(* The queue after get() has taken the entry at position i out of it. *)
Remove(q, i) == SubSeq(q, 1, i - 1) \o SubSeq(q, i + 1, Len(q))

(* d[k] = v on a dict. *)
DictSet(d, k, v) == [x \in (DOMAIN d) \cup {k} |-> IF x = k THEN v ELSE d[x]]

(* d.get(k) *)
DictGet(d, k) == IF k \in DOMAIN d THEN d[k] ELSE None

(* Fault: the astar branch is missing, so astar orders by h_cost alone. *)
PriorityNoCost(alg, new_cost, h_cost) ==
    IF alg = "dijkstra" THEN new_cost ELSE h_cost

(* The priority of a pushed neighbour. *)
Priority(alg, new_cost, h_cost) ==
    IF alg = "astar" THEN new_cost + h_cost
    ELSE IF alg = "dijkstra" THEN new_cost
    ELSE h_cost

(* The priority of the first entry. *)
InitialPriority(alg, s, e) ==
    IF alg = "astar" THEN 0
    ELSE IF alg = "dijkstra" THEN 0
    ELSE manhattan_distance(s, e)

(* Fault: the visited check is missing. *)
NeverVisited(c, vis) == FALSE

(* if current in visited: continue *)
AlreadyVisited(c, vis) == c \in vis

(* Fault: the break at end is missing. *)
NeverReachedEnd(c) == FALSE

(* if current == end: break *)
ReachedEnd(c) == c = end

(* Fault: the cost test is missing, every neighbour is recorded again. *)
ImprovesAlways(cost, next_pos, new_cost) == TRUE

(* Fault: a recorded cost is never improved. *)
ImprovesNever(cost, next_pos, new_cost) == next_pos \notin DOMAIN cost

(* The test that decides whether a neighbour is recorded and pushed. *)
Improves(cost, next_pos, new_cost) ==
    next_pos \notin DOMAIN cost \/ new_cost < cost[next_pos]

(* The locals of find_path before the loop, as a record.  stopped is set by
   the break at end. *)
BeginState(alg) ==
    [algorithm |-> alg,
     explored |-> <<>>,
     frontier |-> <<<<InitialPriority(alg, start, end), start, 0>>>>,
     came_from |-> DictSet(<<>>, start, None),
     cost_so_far |-> DictSet(<<>>, start, 0),
     visited |-> {},
     current |-> None,
     stopped |-> FALSE]

(* The body of the for loop for the neighbour next_pos. *)
VisitNeighbor(next_pos, cur, st) ==
    LET new_cost == st.cost_so_far[cur] + 1
        h_cost == manhattan_distance(next_pos, end)
        priority == Priority(st.algorithm, new_cost, h_cost)
    IN  IF grid[next_pos[1]][next_pos[2]] = 1 THEN st
        ELSE IF Improves(st.cost_so_far, next_pos, new_cost)
           THEN [st EXCEPT
                   !.cost_so_far = DictSet(@, next_pos, new_cost),
                   !.frontier = Put(@, <<priority, next_pos, new_cost>>),
                   !.came_from = DictSet(@, next_pos, cur)]
        ELSE st

(* The for loop over the neighbours of cur, in the order of nbrs.  Each pass
   works on the value the pass before it left (t, then s). *)
RECURSIVE ExpandNeighbors(_, _, _)
ExpandNeighbors(nbrs, cur, st) ==
    IF nbrs = <<>> THEN st
    ELSE CHOOSE r \in {ExpandNeighbors(Tail(nbrs), cur, s) :
                          s \in {VisitNeighbor(Head(nbrs), cur, t) : t \in {st}}} : TRUE

(* One iteration of the while loop, get() returning the entry at position i. *)
LoopBody(st, i) ==
    LET cur == st.frontier[i][2]
        popped == [st EXCEPT !.frontier = Remove(@, i), !.current = cur]
        marked == [popped EXCEPT !.visited = @ \cup {cur}]
        traced == [marked EXCEPT !.explored = Append(@, cur)]
    IN  IF AlreadyVisited(cur, st.visited) THEN popped
        ELSE IF grid[cur[1]][cur[2]] = 1 THEN marked
        ELSE IF ReachedEnd(cur) THEN [traced EXCEPT !.stopped = TRUE]
        ELSE ExpandNeighbors(get_neighbors(cur[1], cur[2]), cur, traced)

(* path.reverse() *)
RECURSIVE Reverse(_)
Reverse(s) == IF s = <<>> THEN <<>> ELSE Append(Reverse(Tail(s)), Head(s))

(* Fault: the final check does not compare path[0] with start. *)
PathValidNoStart(p) ==
    /\ p # <<>>
    /\ ~\E i \in 1..Len(p) : grid[p[i][1]][p[i][2]] = 1

(* The final check of find_path on the reversed path. *)
PathValid(p) ==
    /\ p # <<>>
    /\ p[1] = start
    /\ ~\E i \in 1..Len(p) : grid[p[i][1]][p[i][2]] = 1

(* The while loop run to its end, get() returning the least tuple. *)
RECURSIVE RunLoop(_)
RunLoop(st) ==
    IF st.stopped \/ st.frontier = <<>> THEN st ELSE RunLoop(LoopBody(st, 1))

(* The backward walk over came_from run to its end. *)
RECURSIVE WalkBack(_, _, _)
WalkBack(came, cur, acc) ==
    IF cur = None THEN acc ELSE WalkBack(came, DictGet(came, cur), Append(acc, cur))

(* find_path(algorithm) as a function of the grid: the pair it returns. *)
find_path(alg) ==
    LET st == RunLoop(BeginState(alg))
        p == Reverse(WalkBack(st.came_from, end, <<>>))
    IN  [path |-> IF PathValid(p) THEN p ELSE None, explored |-> st.explored]

----------------------------------------------------------------------------
(* find_path step by step. *)

(* The locals of the running find_path as the record LoopBody works on. *)
Locals ==
    [algorithm |-> algorithm, explored |-> explored, frontier |-> frontier,
     came_from |-> came_from, cost_so_far |-> cost_so_far, visited |-> visited,
     current |-> current, stopped |-> FALSE]

SetLocals(st) ==
    /\ algorithm' = st.algorithm
    /\ explored' = st.explored
    /\ frontier' = st.frontier
    /\ came_from' = st.came_from
    /\ cost_so_far' = st.cost_so_far
    /\ visited' = st.visited
    /\ current' = st.current
    /\ pc' = IF st.stopped THEN "reconstruct" ELSE "loop"

(* Lines 104-118: the locals before the loop. *)
FindPathBegin(alg) ==
    /\ SetLocals(BeginState(alg))
    /\ UNCHANGED <<path, ret_path>>

(* One iteration of the while loop; frontier.get() returns the least tuple. *)
Iterate ==
    /\ pc = "loop"
    /\ frontier # <<>>
    /\ \E st \in {LoopBody(Locals, 1)} : SetLocals(st)
    /\ UNCHANGED <<path, ret_path>>
    /\ UNCHANGED self_vars

(* Lines 156-158, after the loop ended by exhaustion or by break. *)
Reconstruct ==
    /\ \/ pc = "reconstruct"
       \/ pc = "loop" /\ frontier = <<>>
    /\ path' = <<>>
    /\ current' = end
    /\ pc' = "walk"
    /\ UNCHANGED <<algorithm, frontier, came_from, cost_so_far, visited, explored, ret_path>>
    /\ UNCHANGED self_vars

(* One iteration of the backward walk, lines 159-161. *)
Walk ==
    /\ pc = "walk"
    /\ current # None
    /\ path' = Append(path, current)
    /\ current' = DictGet(came_from, current)
    /\ UNCHANGED <<pc, algorithm, frontier, came_from, cost_so_far, visited, explored, ret_path>>
    /\ UNCHANGED self_vars

(* Fault: find_path stores its result in self.path before returning. *)
ReturnStoresPath ==
    /\ pc = "walk"
    /\ current = None
    /\ path' = Reverse(path)
    /\ ret_path' = IF PathValid(path') THEN path' ELSE None
    /\ pc' = "done"
    /\ self_path' = path'
    /\ UNCHANGED <<algorithm, frontier, came_from, cost_so_far, visited, explored, current>>
    /\ UNCHANGED <<rows, cols, grid, start, end, explored_nodes, animation_step>>

(* Lines 162-168: reverse, validate, return. *)
Return ==
    /\ pc = "walk"
    /\ current = None
    /\ path' = Reverse(path)
    /\ ret_path' = IF PathValid(path') THEN path' ELSE None
    /\ pc' = "done"
    /\ UNCHANGED <<algorithm, frontier, came_from, cost_so_far, visited, explored, current>>
    /\ UNCHANGED self_vars

----------------------------------------------------------------------------
(* find_path on the bounded grids: any dimensions up to MaxRows x MaxCols with
   at most MaxCells cells, at most MaxWalls walls anywhere, any two non-wall
   cells as start and end. *)
GridOf(nr, nc, walls, s, e) ==
    [r \in 0..(nr - 1) |-> [c \in 0..(nc - 1) |->
        IF <<r, c>> = e THEN 3
        ELSE IF <<r, c>> = s THEN 2
        ELSE IF <<r, c>> \in walls THEN 1
        ELSE 0]]

NoCall ==
    /\ pc = "idle"
    /\ algorithm = "astar"
    /\ frontier = <<>>
    /\ came_from = <<>>
    /\ cost_so_far = <<>>
    /\ visited = {}
    /\ explored = <<>>
    /\ current = None
    /\ path = <<>>
    /\ ret_path = None

Init ==
    /\ rows \in 1..MaxRows
    /\ cols \in 1..MaxCols
    /\ rows * cols <= MaxCells
    /\ start \in Cells(rows, cols)
    /\ end \in Cells(rows, cols)
    /\ \E walls \in SUBSET (Cells(rows, cols) \ {start, end}) :
          /\ Cardinality(walls) <= MaxWalls
          /\ grid = GridOf(rows, cols, walls, start, end)
    /\ explored_nodes = <<>>
    /\ self_path = <<>>
    /\ animation_step = 0
    /\ NoCall

(* A call of find_path(alg). *)
FindPath ==
    /\ pc = "idle"
    /\ \E alg \in Algorithms : FindPathBegin(alg)
    /\ UNCHANGED self_vars

Next == FindPath \/ Iterate \/ Reconstruct \/ Walk \/ Return

Spec == Init /\ [][Next]_vars

(* find_path when get() may return any entry of least priority: the order
   among entries of equal priority is left open. *)
IterateTie ==
    /\ pc = "loop"
    /\ frontier # <<>>
    /\ \E i \in 1..Len(frontier) :
          /\ frontier[i][1] = frontier[1][1]
          /\ \E st \in {LoopBody(Locals, i)} : SetLocals(st)
    /\ UNCHANGED <<path, ret_path>>
    /\ UNCHANGED self_vars

TieNext == FindPath \/ IterateTie \/ Reconstruct \/ Walk \/ Return

TieSpec == Init /\ [][TieNext]_vars

(* find_path once called runs on: it has no suspension point. *)
FairSpec == Spec /\ WF_vars(Iterate \/ Reconstruct \/ Walk \/ Return)

----------------------------------------------------------------------------
(* The program: __init__, create_maze and the event loop of run(). *)

(* Fault: the horizontal walls span the whole width. *)
HorizontalWallColsFull(nc) == 0..(nc - 1)

(* range(2, self.cols - 2) and range(2, self.rows - 2) of create_maze. *)
HorizontalWallCols(nc) == 2..(nc - 3)
VerticalWallRows(nr) == 2..(nr - 3)

(* Fault: create_maze does not write the end cell. *)
MazeGridEndMissing(nr, nc, s, e) ==
    LET wall(r, c) ==
            \/ r \in {2, 3, 8, 12} /\ c \in HorizontalWallCols(nc)
            \/ c \in {5, 10, 15} /\ r \in VerticalWallRows(nr)
            \/ r = 6 /\ c \in 3..6
            \/ r = 10 /\ c \in 11..14
    IN  [r \in 0..(nr - 1) |-> [c \in 0..(nc - 1) |->
            IF <<r, c>> = s THEN 2
            ELSE IF wall(r, c) THEN 1
            ELSE 0]]

(* The grid create_maze builds; start and end are written last. *)
MazeGrid(nr, nc, s, e) ==
    LET wall(r, c) ==
            \/ r \in {2, 3, 8, 12} /\ c \in HorizontalWallCols(nc)
            \/ c \in {5, 10, 15} /\ r \in VerticalWallRows(nr)
            \/ r = 6 /\ c \in 3..6
            \/ r = 10 /\ c \in 11..14
    IN  [r \in 0..(nr - 1) |-> [c \in 0..(nc - 1) |->
            IF <<r, c>> = e THEN 3
            ELSE IF <<r, c>> = s THEN 2
            ELSE IF wall(r, c) THEN 1
            ELSE 0]]

(* The state __init__ leaves. *)
ProgramInit ==
    /\ rows = ROWS
    /\ cols = COLS
    /\ start = <<1, 1>>
    /\ end = <<ROWS - 2, COLS - 2>>
    /\ grid = MazeGrid(ROWS, COLS, <<1, 1>>, <<ROWS - 2, COLS - 2>>)
    /\ explored_nodes = <<>>
    /\ self_path = <<>>
    /\ animation_step = 0
    /\ NoCall

(* Fault: reset_animation leaves animation_step as it is. *)
reset_animation_keeps_step ==
    /\ explored_nodes' = <<>>
    /\ self_path' = <<>>
    /\ animation_step' = animation_step

reset_animation ==
    /\ explored_nodes' = <<>>
    /\ self_path' = <<>>
    /\ animation_step' = 0

(* Keys A, D, G: run_algorithm up to the first iteration of find_path. *)
run_algorithm ==
    /\ pc = "idle"
    /\ \E alg \in Algorithms : FindPathBegin(alg)
    /\ reset_animation
    /\ UNCHANGED <<rows, cols, grid, start, end>>

(* run_algorithm after find_path returned, lines 184-187. *)
RunAlgorithmEnd ==
    /\ pc = "done"
    /\ pc' = "idle"
    /\ IF ret_path # None
          THEN /\ explored_nodes' = explored
               /\ self_path' = ret_path
               /\ animation_step' = 0
          ELSE UNCHANGED <<explored_nodes, self_path, animation_step>>
    /\ UNCHANGED <<rows, cols, grid, start, end>>
    /\ UNCHANGED <<algorithm, frontier, came_from, cost_so_far, visited, explored,
                   current, path, ret_path>>

(* Key R. *)
KeyR ==
    /\ pc = "idle"
    /\ grid' = MazeGrid(rows, cols, start, end)
    /\ reset_animation
    /\ UNCHANGED <<rows, cols, start, end>>
    /\ UNCHANGED <<pc, algorithm, frontier, came_from, cost_so_far, visited, explored,
                   current, path, ret_path>>

(* The animation step of the loop, when animation_speed has elapsed. *)
Tick ==
    /\ pc = "idle"
    /\ animation_step < Len(explored_nodes) + 1
    /\ animation_step' = animation_step + 1
    /\ UNCHANGED <<rows, cols, grid, start, end, explored_nodes, self_path>>
    /\ UNCHANGED <<pc, algorithm, frontier, came_from, cost_so_far, visited, explored,
                   current, path, ret_path>>

(* draw_grid, lines 211-217: the explored cells it paints, which are the first
   min(animation_step, len(explored_nodes)) entries that are not start, end
   or a wall. *)
DrawnExplored ==
    LET n == IF animation_step < Len(explored_nodes)
                THEN animation_step ELSE Len(explored_nodes)
        paints(c) == c # start /\ c # end /\ grid[c[1]][c[2]] # 1
    IN  SelectSeq(SubSeq(explored_nodes, 1, n), paints)

(* draw_grid, lines 220-229: the segments of the final path it draws. *)
DrawnPath ==
    IF animation_step >= Len(explored_nodes)
    THEN [i \in 1..(Len(self_path) - 1) |-> <<self_path[i], self_path[i + 1]>>]
    ELSE <<>>

ProgramNext ==
    \/ run_algorithm
    \/ Iterate
    \/ Reconstruct
    \/ Walk
    \/ Return
    \/ RunAlgorithmEnd
    \/ KeyR
    \/ Tick

ProgramSpec == ProgramInit /\ [][ProgramNext]_vars

(* run_algorithm on the bounded grids of Init, where end need not be
   reachable: the method called, any number of times, on an object whose grid
   is any of those grids. *)
RunNext ==
    \/ run_algorithm
    \/ Iterate
    \/ Reconstruct
    \/ Walk
    \/ Return
    \/ RunAlgorithmEnd

RunSpec == Init /\ [][RunNext]_vars

----------------------------------------------------------------------------
(* What the properties are stated with: adjacency, reachability and distance
   on the grid, computed without get_neighbors. *)
SeqContains(s, x) == \E i \in 1..Len(s) : s[i] = x

SeqToSet(s) == {s[i] : i \in 1..Len(s)}

NoDuplicates(s) == \A i, j \in 1..Len(s) : s[i] = s[j] => i = j

IsWall(c) == grid[c[1]][c[2]] = 1

Adjacent4(a, b) == Abs(a[1] - b[1]) + Abs(a[2] - b[2]) = 1

FreeCells == {c \in Cells(rows, cols) : ~IsWall(c)}

RECURSIVE Closure(_)
Closure(S) ==
    LET N == S \cup {c \in FreeCells : \E d \in S : Adjacent4(c, d)}
    IN  IF N = S THEN S ELSE Closure(N)

(* The non-wall cells reachable from start by 4-directional steps. *)
ReachableCells == Closure({start})

RECURSIVE Dist(_, _, _)
Dist(seen, layer, d) ==
    IF end \in layer THEN d
    ELSE IF layer = {} THEN -1
    ELSE LET nxt == {c \in FreeCells \ seen : \E x \in layer : Adjacent4(c, x)}
         IN  Dist(seen \cup nxt, nxt, d + 1)

(* The breadth-first distance from start to end, -1 when there is none. *)
ShortestDistance == Dist({start}, {start}, 0)

Returned == pc = "done"

----------------------------------------------------------------------------
(* C1: a returned path starts at start, ends at end, every consecutive pair
   of its cells is 4-adjacent and each of the two is in get_neighbors of the
   other, and none of its cells is a wall; for all three strategies. *)
C1_PathIsValidWalk ==
    (Returned /\ ret_path # None) =>
        LET p == ret_path
        IN  /\ p[1] = start
            /\ p[Len(p)] = end
            /\ \A i \in 1..(Len(p) - 1) :
                  /\ Adjacent4(p[i], p[i + 1])
                  /\ SeqContains(get_neighbors(p[i][1], p[i][2]), p[i + 1])
                  /\ SeqContains(get_neighbors(p[i + 1][1], p[i + 1][2]), p[i])
            /\ \A i \in 1..Len(p) : ~IsWall(p[i])

(* A greedy search returned a path that goes around walls. *)
C1_Witness ==
    /\ Returned
    /\ algorithm = "greedy"
    /\ ret_path # None
    /\ Len(ret_path) - 1 > manhattan_distance(start, end)

(* C2: a path returned by dijkstra or astar has the breadth-first distance
   from start to end as its edge count. *)
C2_ShortestPath ==
    (Returned /\ algorithm \in {"dijkstra", "astar"} /\ ret_path # None) =>
        Len(ret_path) - 1 = ShortestDistance

(* astar returned a path after it had improved the recorded cost of a cell:
   the superseded entry of that cell is still in the queue. *)
C2_Witness ==
    /\ Returned
    /\ algorithm = "astar"
    /\ ret_path # None
    /\ Len(ret_path) >= 5
    /\ \E i \in 1..Len(frontier) :
          frontier[i][3] > cost_so_far[frontier[i][2]]

(* C3: find_path returns a path exactly when end is reachable from start
   through non-wall cells, and None otherwise; for all three strategies. *)
C3_PathIffReachable ==
    Returned => ((ret_path # None) <=> (end \in ReachableCells))

(* greedy returned None after exploring several cells. *)
C3_Witness ==
    /\ Returned
    /\ algorithm = "greedy"
    /\ end \notin ReachableCells
    /\ ret_path = None
    /\ Len(explored) >= 3

(* C4: explored never holds a cell twice and, once the first cell has been
   popped, begins with start; it is not empty when the loop has ended, by
   break or by exhaustion. *)
C4_ExploredStartFirstNoDuplicates ==
    /\ NoDuplicates(explored)
    /\ explored # <<>> => explored[1] = start
    /\ pc \in {"reconstruct", "walk", "done"} => explored # <<>>
    /\ \A i \in 1..Len(explored) : explored[i] \in visited

(* The entry about to be popped is one of an already finalized cell: the
   pop that would put the cell into explored a second time. *)
C4_Witness ==
    /\ pc = "loop"
    /\ frontier # <<>>
    /\ frontier[1][2] \in visited
    /\ Len(explored) >= 3

(* C6: when end is not reachable from start, the path is None and explored
   is not empty and holds exactly the non-wall cells reachable from start. *)
C6_UnreachableEndExploresAll ==
    (Returned /\ end \notin ReachableCells) =>
        /\ ret_path = None
        /\ explored # <<>>
        /\ SeqToSet(explored) = ReachableCells

(* end is enclosed: all its in-bounds neighbours are walls, and start has
   several cells to explore. *)
C6_Witness ==
    /\ Returned
    /\ \A c \in Cells(rows, cols) : Adjacent4(c, end) => IsWall(c)
    /\ \E c \in Cells(rows, cols) : Adjacent4(c, end)
    /\ ret_path = None
    /\ Cardinality(ReachableCells) >= 4

(* C9: with start = end the search pops start, appends it to explored, stops
   without expanding a neighbour, and returns [start] with explored = [start]. *)
C9_StartIsEnd ==
    (start = end /\ pc \in {"reconstruct", "walk", "done"}) =>
        /\ explored = <<start>>
        /\ visited = {start}
        /\ frontier = <<>>
        /\ DOMAIN cost_so_far = {start}
        /\ DOMAIN came_from = {start}
        /\ Returned => ret_path = <<start>>

(* start = end with a free neighbour that was not expanded into. *)
C9_Witness ==
    /\ Returned
    /\ start = end
    /\ get_neighbors(start[1], start[2]) # <<>>
    /\ ret_path = <<start>>

----------------------------------------------------------------------------
(* C7: on the 15 x 20 grid of create_maze with start (1,1) and end (13,18):
   astar returns a path from (1,1) to (13,18) without a wall cell; dijkstra
   returns a path at least as long as the one astar returns, and explores at
   least as many cells as astar; greedy returns a path. *)
C7_MazeScenario ==
    /\ rows = 15 /\ cols = 20 /\ start = <<1, 1>> /\ end = <<13, 18>>
    /\ (Returned /\ algorithm = "astar") =>
          /\ ret_path # None
          /\ ret_path[1] = <<1, 1>>
          /\ ret_path[Len(ret_path)] = <<13, 18>>
          /\ \A i \in 1..Len(ret_path) : ~IsWall(ret_path[i])
    /\ (Returned /\ algorithm = "dijkstra") =>
          /\ ret_path # None
          /\ find_path("astar").path # None
          /\ Len(ret_path) >= Len(find_path("astar").path)
          /\ Len(explored) >= Len(find_path("astar").explored)
    /\ (Returned /\ algorithm = "greedy") => ret_path # None

(* dijkstra returned on the maze, having explored more cells than astar does. *)
C7_Witness ==
    /\ Returned
    /\ algorithm = "dijkstra"
    /\ grid = MazeGrid(15, 20, <<1, 1>>, <<13, 18>>)
    /\ ret_path # None
    /\ Len(explored) > Len(find_path("astar").explored)

(* C8: when get() may return any entry of least priority, find_path still
   returns a path exactly when end is reachable, the path is a wall-free walk
   of adjacent cells from start to end, and for dijkstra and astar its edge
   count is the breadth-first distance. *)
C8_TieOrderIndependent ==
    Returned =>
        /\ (ret_path # None) <=> (end \in ReachableCells)
        /\ ret_path # None =>
              /\ ret_path[1] = start
              /\ ret_path[Len(ret_path)] = end
              /\ \A i \in 1..(Len(ret_path) - 1) : Adjacent4(ret_path[i], ret_path[i + 1])
              /\ \A i \in 1..Len(ret_path) : ~IsWall(ret_path[i])
        /\ (ret_path # None /\ algorithm \in {"dijkstra", "astar"}) =>
              Len(ret_path) - 1 = ShortestDistance

(* astar returned a path after popping equal-priority entries in another
   order than the tuple order: its explored differs from find_path's. *)
C8_Witness ==
    /\ Returned
    /\ algorithm = "astar"
    /\ ret_path # None
    /\ explored # find_path("astar").explored
    /\ ret_path # find_path("astar").path

(* C10: every call of find_path returns: the loop ends after finitely many
   pops and the backward walk after finitely many steps; and an entry is
   pushed for a cell only when the cell's cost is first recorded or strictly
   decreases. *)
C10_Terminates ==
    /\ (pc = "loop") ~> Returned
    /\ [][\A c \in DOMAIN cost_so_far' :
            (\E i \in 1..Len(frontier') :
                frontier'[i][2] = c /\ ~SeqContains(frontier, frontier'[i]))
            => (c \notin DOMAIN cost_so_far \/ cost_so_far'[c] < cost_so_far[c])]_vars

(* A call returned after a loop of many pops and a walk of several steps. *)
C10_Witness ==
    /\ Returned
    /\ Len(explored) >= 8
    /\ Len(path) >= 5

----------------------------------------------------------------------------
(* C11: find_path has no effect on the object: every step of a call, for
   every strategy, leaves grid, start, end, explored_nodes, self.path and
   animation_step (and the dimensions) as they were; only the locals of the
   call change. *)
C11_FindPathLeavesSelfUnchanged ==
    [][/\ grid' = grid
       /\ start' = start
       /\ end' = end
       /\ explored_nodes' = explored_nodes
       /\ self_path' = self_path
       /\ animation_step' = animation_step
       /\ rows' = rows
       /\ cols' = cols]_vars

(* A call returned a path of several cells on a grid with a wall, having
   explored cells, and the object still holds what the constructor left. *)
C11_Witness ==
    /\ Returned
    /\ ret_path # None
    /\ Len(ret_path) >= 3
    /\ Len(explored) >= 3
    /\ \E c \in Cells(rows, cols) : IsWall(c)
    /\ explored_nodes = <<>>
    /\ self_path = <<>>
    /\ animation_step = 0
    /\ grid[start[1]][start[2]] = 2
    /\ grid[end[1]][end[2]] = 3

----------------------------------------------------------------------------
(* C12: after __init__ and after any number of create_maze calls (key R
   included) the grid has rows rows of cols cells each, exactly one cell of
   value 2, which is start, and exactly one cell of value 3, which is end;
   neither of the two is a wall. *)
C12_GridShapeOneStartOneEnd ==
    /\ DOMAIN grid = 0..(rows - 1)
    /\ \A r \in DOMAIN grid : DOMAIN grid[r] = 0..(cols - 1)
    /\ \A c \in Cells(rows, cols) : grid[c[1]][c[2]] \in 0..3
    /\ {c \in Cells(rows, cols) : grid[c[1]][c[2]] = 2} = {start}
    /\ {c \in Cells(rows, cols) : grid[c[1]][c[2]] = 3} = {end}
    /\ ~IsWall(start)
    /\ ~IsWall(end)

(* Key R rebuilt the maze after a search had stored its result: the stored
   result is gone and the search's locals are still those of the last call. *)
C12_Witness ==
    /\ pc = "idle"
    /\ ret_path # None
    /\ Len(explored) > 0
    /\ explored_nodes = <<>>
    /\ self_path = <<>>
    /\ grid = MazeGrid(rows, cols, start, end)
    /\ \E c \in Cells(rows, cols) : IsWall(c)

----------------------------------------------------------------------------
(* C13: for every cell (row, col) of the grid, get_neighbors returns exactly
   those of (row, col+1), (row+1, col), (row, col-1), (row-1, col), in this
   order, that lie inside the grid and are not walls: no cell outside the
   grid, no wall, no cell twice.  The grid is the same in every state of a
   call, so the cells are all looked at before the call, and during the loop
   the cell that is being expanded. *)
C13_NeighborsEastSouthWestNorth ==
    \A c \in (IF pc = "idle" THEN Cells(rows, cols)
              ELSE IF pc = "loop" /\ current # None THEN {current}
              ELSE {}) :
        LET inside(p) == p[1] \in 0..(rows - 1) /\ p[2] \in 0..(cols - 1)
            keep(p) == IF inside(p) /\ ~IsWall(p) THEN <<p>> ELSE <<>>
            east == <<c[1], c[2] + 1>>
            south == <<c[1] + 1, c[2]>>
            west == <<c[1], c[2] - 1>>
            north == <<c[1] - 1, c[2]>>
            result == get_neighbors(c[1], c[2])
        IN  /\ result = keep(east) \o keep(south) \o keep(west) \o keep(north)
            /\ NoDuplicates(result)
            /\ \A i \in 1..Len(result) : inside(result[i]) /\ ~IsWall(result[i])

(* The loop expanded a cell that has a wall on one side and the border of the
   grid on another, and get_neighbors gave it two neighbours. *)
C13_Witness ==
    /\ pc = "loop"
    /\ current # None
    /\ Len(explored) >= 2
    /\ Len(get_neighbors(current[1], current[2])) = 2
    /\ \E d \in {<<0, 1>>, <<1, 0>>, <<0, -1>>, <<-1, 0>>} :
          LET p == <<current[1] + d[1], current[2] + d[2]>>
          IN  p \in Cells(rows, cols) /\ IsWall(p)
    /\ \E d \in {<<0, 1>>, <<1, 0>>, <<0, -1>>, <<-1, 0>>} :
          <<current[1] + d[1], current[2] + d[2]>> \notin Cells(rows, cols)

----------------------------------------------------------------------------
(* C14: when start and end are 4-adjacent (and neither is a wall), every
   strategy returns the path [start, end] and explores at most 5 cells; astar
   and greedy explore exactly [start, end]. *)
C14_AdjacentStartEnd ==
    (Returned /\ Adjacent4(start, end) /\ ~IsWall(start) /\ ~IsWall(end)) =>
        /\ ret_path = <<start, end>>
        /\ Len(explored) <= 5
        /\ algorithm \in {"astar", "greedy"} => explored = <<start, end>>

(* dijkstra returned [start, end] for adjacent start and end after exploring
   five cells: start, its three other neighbours, and end. *)
C14_Witness ==
    /\ Returned
    /\ Adjacent4(start, end)
    /\ algorithm = "dijkstra"
    /\ ret_path = <<start, end>>
    /\ Len(explored) = 5
    /\ explored[1] = start
    /\ explored[5] = end

----------------------------------------------------------------------------
(* The loop is about to pop the least entry of the frontier. *)
AboutToPop == pc = "loop" /\ frontier # <<>>

(* What one pop does to a cell that is already in visited, stated for the
   strategies in algs: a popped entry that is discarded has a g_cost no less
   than the cost recorded for its cell, an entry that finalizes its cell has
   exactly the recorded cost, and the iteration leaves cost_so_far and
   came_from of every visited cell as they were. *)
StaleEntriesAreWorse(algs) ==
    (AboutToPop /\ algorithm \in algs) =>
        LET cell == frontier[1][2]
            g_cost == frontier[1][3]
        IN  /\ cell \in visited => g_cost >= cost_so_far[cell]
            /\ cell \notin visited => g_cost = cost_so_far[cell]
            /\ \A c \in visited :
                  /\ cost_so_far'[c] = cost_so_far[c]
                  /\ came_from'[c] = came_from[c]

(* C15 as stated: for all three strategies a discarded entry has a g_cost no
   less than the g_cost of the entry on which its cell was finalized, and
   cost_so_far and came_from of a cell never change after the cell has been
   added to visited. *)
C15_StaleEntriesAreWorse_AllStrategies ==
    [][StaleEntriesAreWorse({"astar", "dijkstra", "greedy"})]_vars

(* C15, amended: for dijkstra and astar a discarded entry has a g_cost no less
   than the g_cost of the entry on which its cell was finalized, which is the
   cost recorded for the cell, and cost_so_far and came_from of a cell never
   change after the cell has been added to visited.  For greedy a visited
   cell's cost and predecessor can still be replaced by a cheaper route, and
   the entry pushed for it then is discarded with a smaller g_cost. *)
C15_StaleEntriesAreWorse ==
    [][StaleEntriesAreWorse({"astar", "dijkstra"})]_vars

(* astar is about to discard an entry whose g_cost is strictly greater than
   the cost recorded for its already visited cell. *)
C15_Witness ==
    /\ AboutToPop
    /\ algorithm = "astar"
    /\ frontier[1][2] \in visited
    /\ frontier[1][3] > cost_so_far[frontier[1][2]]
    /\ Len(explored) >= 3

----------------------------------------------------------------------------
(* C16: after run_algorithm, explored_nodes is the explored sequence that
   find_path returned, whether or not a path was found; self.path is the
   returned path when there is one and empty otherwise; animation_step is 0. *)
C16_RunAlgorithmKeepsExplored ==
    [][(pc = "done" /\ pc' = "idle") =>
          /\ explored_nodes' = explored
          /\ self_path' = (IF ret_path # None THEN ret_path ELSE <<>>)
          /\ animation_step' = 0]_vars

----------------------------------------------------------------------------
(* Following came_from from c reaches start within n steps. *)
RECURSIVE ChainEndsAtStart(_, _)
ChainEndsAtStart(c, n) ==
    IF c = start THEN TRUE
    ELSE IF n = 0 \/ c \notin DOMAIN came_from \/ came_from[c] = None THEN FALSE
    ELSE ChainEndsAtStart(came_from[c], n - 1)

(* What holds of cost_so_far and came_from during a call. *)
CostsAndPredecessorsConsistent ==
    pc \in {"loop", "reconstruct", "walk", "done"} =>
        /\ start \in DOMAIN cost_so_far
        /\ cost_so_far[start] = 0
        /\ came_from[start] = None
        /\ DOMAIN came_from = DOMAIN cost_so_far
        /\ \A c \in DOMAIN cost_so_far \ {start} :
              LET p == came_from[c]
              IN  /\ p # None
                  /\ p \in DOMAIN cost_so_far
                  /\ SeqContains(get_neighbors(p[1], p[2]), c)
                  /\ cost_so_far[p] + 1 <= cost_so_far[c]
                  /\ ChainEndsAtStart(c, rows * cols)

(* C17: at every iteration of the loop, for every strategy, cost_so_far[start]
   is 0 and start has no predecessor; the cost of a cell never increases; every
   other cell c with a recorded cost has a predecessor p = came_from[c] with a
   recorded cost, c in get_neighbors(p) and cost_so_far[p] + 1 <= cost_so_far[c];
   so came_from has no cycle and every predecessor chain ends at start. *)
C17_CostsAndPredecessors ==
    /\ []CostsAndPredecessorsConsistent
    /\ [][\A c \in DOMAIN cost_so_far :
            /\ c \in DOMAIN cost_so_far'
            /\ cost_so_far'[c] <= cost_so_far[c]]_vars

(* In the loop, after the cost of a cell that has a successor was lowered:
   the cell is now more than one step cheaper than its successor. *)
C17_Witness ==
    /\ pc = "loop"
    /\ Len(explored) >= 4
    /\ \E c \in DOMAIN cost_so_far \ {start} :
          cost_so_far[came_from[c]] + 1 < cost_so_far[c]

----------------------------------------------------------------------------
(* C18: in every state of the event loop, under any interleaving of the keys
   A, D, G, R and animation ticks: 0 <= animation_step <= len(explored_nodes)
   + 1; each of the keys sets animation_step to 0; a tick raises
   animation_step by exactly 1, and only while it is below
   len(explored_nodes) + 1, so that any step either sets it to 0, leaves it or
   is such a tick; and draw_grid draws the final path only when animation_step
   >= len(explored_nodes), when every explored cell that is not start or end
   has been painted. *)
C18_AnimationStep ==
    /\ [](0 <= animation_step /\ animation_step <= Len(explored_nodes) + 1)
    /\ [][(run_algorithm \/ RunAlgorithmEnd \/ KeyR) => animation_step' = 0]_vars
    /\ [][\/ animation_step' = 0
          \/ animation_step' = animation_step
          \/ /\ animation_step' = animation_step + 1
             /\ animation_step < Len(explored_nodes) + 1
             /\ explored_nodes' = explored_nodes
             /\ self_path' = self_path]_vars
    /\ [](DrawnPath # <<>> =>
            /\ animation_step >= Len(explored_nodes)
            /\ \A i \in 1..Len(explored_nodes) :
                  explored_nodes[i] \notin {start, end} =>
                      SeqContains(DrawnExplored, explored_nodes[i]))

(* The animation of a stored search has run to its end: animation_step is
   len(explored_nodes) + 1, every explored cell is painted and the final path
   is drawn. *)
C18_Witness ==
    /\ pc = "idle"
    /\ Len(explored_nodes) >= 10
    /\ animation_step = Len(explored_nodes) + 1
    /\ Len(DrawnPath) = Len(self_path) - 1
    /\ Len(DrawnPath) >= 10
    /\ Len(DrawnExplored) = Len(explored_nodes) - 2

====
